---------------------------- MODULE Spec2Model ----------------------------
(***************************************************************************)
(* Model of src/app.py ("Ricerca Ricambi"): text normalisation, the word   *)
(* prefilter and the fuzzy filter on the description, the filter block of  *)
(* the script, pagination, the load checks and the highlighter.            *)
(*                                                                         *)
(* A text is a sequence of code points; a code point is written as a one   *)
(* character string, or as "U+xxxx" for the non-ASCII ones.                *)
(***************************************************************************)
EXTENDS Integers, Sequences, FiniteSets, TLC

VARIABLES
    pc,                 \* position of the script, or of the function applied
    x, nx, nnx,         \* _normalize_text: input, result, result of the result
    testo, keyword, html, \* evidenzia_testo_multi: text, query, annotated text
    df,                 \* the table, with its *_norm columns: a sequence of rows
    codice, descrizione, ubicazione, categoria,   \* st.session_state: the filters
    soglia_fuzzy, match_all_words,                \* st.session_state: the tuning
    filtro,             \* the filtered table: the indexes of its rows in df, in order
    descIn,             \* filtro as handed to filter_contains_all_words (line 192)
    stage1,             \* filtro as returned by filter_contains_all_words (line 194)
    nrows,              \* len(df), for the pagination
    total,              \* len(filtro)
    page_size, page_idx,  \* st.session_state: the pagination
    max_pages,          \* line 212
    page_len,           \* len(page_df), line 231
    excel,              \* "Ubicazione ricambi.xlsx" beside the program
    up,                 \* the file given to st.file_uploader
    table,              \* df while it is loaded and verified (lines 107-131)
    error               \* the st.error message shown, "" for none

varsNorm   == <<x, nx, nnx>>
varsHl     == <<testo, keyword, html>>
varsQuery  == <<codice, descrizione, ubicazione, categoria, soglia_fuzzy, match_all_words>>
varsFilter == <<df, varsQuery, filtro, descIn, stage1>>
varsPage   == <<nrows, total, page_size, page_idx, max_pages, page_len>>
varsLoad   == <<excel, up, table, error>>
vars       == <<pc, varsNorm, varsHl, varsFilter, varsPage, varsLoad>>

-----------------------------------------------------------------------------
(* Bounds                                                                  *)

MaxNormLen == 3
MaxTestoLen == 3
MaxKeywordLen == 3
MaxRows == 2
MaxQueryLen == 3
MaxTotal == 52
MaxLoadRows == 2

-----------------------------------------------------------------------------
(* Texts                                                                   *)

\* All sequences over S of length 0..n.
StrUpTo(S, n) == UNION {[1..k -> S] : k \in 0..n}

Max(a, b) == IF a >= b THEN a ELSE b
Min(a, b) == IF a <= b THEN a ELSE b

\* s[i..j], 1-based and inclusive, empty when j < i.
Slice(s, i, j) == [k \in 1..Max(0, j - i + 1) |-> s[i + k - 1]]

RECURSIVE Concat(_)
Concat(ss) == IF ss = <<>> THEN <<>> ELSE Head(ss) \o Concat(Tail(ss))

\* The value pandas holds for an absent cell (pd.isna is true of it); no text,
\* as "NaN" is no code point.
NaN == <<"NaN">>

\* Code points of the model.  U+0301 is COMBINING ACUTE ACCENT, U+00E1 is
\* a-acute, U+00B4 is ACUTE ACCENT (compatibility: SPACE + U+0301),
\* U+1D400 is MATHEMATICAL BOLD CAPITAL A (compatibility: "A", no lowercase).
Whitespace == {" "}
Combining  == {"U+0301"}

LowerLetters == <<"a", "b", "c", "d", "e", "f", "g", "h", "i", "j", "k", "l", "m",
                  "n", "o", "p", "q", "r", "s", "t", "u", "v", "w", "x", "y", "z">>
UpperLetters == <<"A", "B", "C", "D", "E", "F", "G", "H", "I", "J", "K", "L", "M",
                  "N", "O", "P", "Q", "R", "S", "T", "U", "V", "W", "X", "Y", "Z">>
LetterIndex(c, letters) ==
    IF \E k \in 1..Len(letters) : letters[k] = c
    THEN CHOOSE k \in 1..Len(letters) : letters[k] = c ELSE 0

\* str.lower() and str.upper(), one code point.
Lower(c) == IF LetterIndex(c, UpperLetters) > 0
            THEN LowerLetters[LetterIndex(c, UpperLetters)] ELSE c
Upper(c) == IF LetterIndex(c, LowerLetters) > 0
            THEN UpperLetters[LetterIndex(c, LowerLetters)] ELSE c
IsLetter(c) == LetterIndex(c, LowerLetters) > 0 \/ LetterIndex(c, UpperLetters) > 0

\* unicodedata.normalize("NFKD", c), one code point.
NFKD(c) ==
    CASE c = "U+00E1"  -> <<"a", "U+0301">>
      [] c = "U+00B4"  -> <<" ", "U+0301">>
      [] c = "U+1D400" -> <<"A">>
      [] OTHER         -> <<c>>

\* str.strip(): leading and trailing whitespace removed.
RECURSIVE LStrip(_)
LStrip(s) == IF s # <<>> /\ Head(s) \in Whitespace THEN LStrip(Tail(s)) ELSE s

RECURSIVE RStrip(_)
RStrip(s) ==
    IF s # <<>> /\ s[Len(s)] \in Whitespace THEN RStrip(SubSeq(s, 1, Len(s) - 1)) ELSE s

Strip(s) == RStrip(LStrip(s))

\* str.split(): the maximal runs of non-whitespace, left to right.
RECURSIVE SplitAcc(_, _)
SplitAcc(s, cur) ==
    IF s = <<>> THEN (IF cur = <<>> THEN <<>> ELSE <<cur>>)
    ELSE IF Head(s) \in Whitespace
         THEN (IF cur = <<>> THEN <<>> ELSE <<cur>>) \o SplitAcc(Tail(s), <<>>)
         ELSE SplitAcc(Tail(s), Append(cur, Head(s)))

Split(s) == SplitAcc(s, <<>>)

\* _normalize_text: "" for an absent value; else strip, lower, NFKD, drop the
\* combining marks.
_normalize_text(v) ==
    IF v = NaN THEN <<>>
    ELSE LET stripped == Strip(v)
             lowered  == [i \in 1..Len(stripped) |-> Lower(stripped[i])]
             decomp   == Concat([i \in 1..Len(lowered) |-> NFKD(lowered[i])])
         IN  SelectSeq(decomp, LAMBDA c : c \notin Combining)

-----------------------------------------------------------------------------
(* Normalisation applied twice                                             *)

NormChars == {"a", "A", " ", "U+0301", "U+00E1", "U+00B4", "U+1D400"}
NormInputs == StrUpTo(NormChars, MaxNormLen) \cup {NaN}

\* The variables of the parts a specification leaves alone.
IdleNorm == x = <<>> /\ nx = <<>> /\ nnx = <<>>
IdleHl   == testo = <<>> /\ keyword = <<>> /\ html = <<>>
\* pd.DataFrame(): no column, no row.
EmptyFrame == [columns |-> <<>>, rows |-> 0]
NoFile == [kind |-> "absent", columns |-> <<>>, rows |-> 0]
IdleLoad == excel = NoFile /\ up = NoFile /\ table = EmptyFrame /\ error = ""
IdlePage ==
    /\ nrows = 0 /\ total = 0 /\ page_size = 0 /\ page_idx = 0
    /\ max_pages = 0 /\ page_len = 0
IdleFilter ==
    /\ df = <<>> /\ filtro = <<>> /\ descIn = <<>> /\ stage1 = <<>>
    /\ codice = <<>> /\ descrizione = <<>> /\ ubicazione = <<>> /\ categoria = <<>>
    /\ soglia_fuzzy = 0 /\ match_all_words = FALSE

InitNorm ==
    /\ pc = "norm"
    /\ x \in NormInputs
    /\ nx = <<>> /\ nnx = <<>>
    /\ IdleHl /\ IdleFilter /\ IdlePage /\ IdleLoad

NormalizeOnce ==
    /\ pc = "norm"
    /\ nx' = _normalize_text(x)
    /\ pc' = "renorm"
    /\ UNCHANGED <<x, nnx, varsHl, varsFilter, varsPage, varsLoad>>

NormalizeAgain ==
    /\ pc = "renorm"
    /\ nnx' = _normalize_text(nx)
    /\ pc' = "done"
    /\ UNCHANGED <<x, nx, varsHl, varsFilter, varsPage, varsLoad>>

NextNorm == NormalizeOnce \/ NormalizeAgain

SpecNorm == InitNorm /\ [][NextNorm]_vars

\* C5: normalisation is idempotent: _normalize_text(_normalize_text(x)) equals
\* _normalize_text(x) for every input x.
C5_NormalizeIdempotent == pc = "done" => nnx = nx

-----------------------------------------------------------------------------
(* evidenzia_testo_multi                                                   *)

MarkOpen  == "<mark>"
MarkClose == "</mark>"

\* re.IGNORECASE: two code points match when they agree up to case.
SameCaseless(c, d) == Lower(c) = Lower(d)

\* A match that compares the code points as they are (re.IGNORECASE left out).
MatchAtExact(text, pos, w) ==
    /\ pos + Len(w) - 1 <= Len(text)
    /\ \A k \in 1..Len(w) : text[pos + k - 1] = w[k]

\* re.escape(w) matched at pos under re.IGNORECASE: w, literally, up to case.
MatchAt(text, pos, w) ==
    /\ pos + Len(w) - 1 <= Len(text)
    /\ \A k \in 1..Len(w) : SameCaseless(text[pos + k - 1], w[k])

\* The alternation (w1|w2|...) at pos: the length of the first alternative
\* that matches there, 0 when none does.
RECURSIVE AltMatchLen(_, _, _)
AltMatchLen(text, pos, words) ==
    IF words = <<>> THEN 0
    ELSE IF MatchAt(text, pos, Head(words)) THEN Len(Head(words))
         ELSE AltMatchLen(text, pos, Tail(words))

\* pattern.sub(r"<mark>\1</mark>", text) from pos on: leftmost matches, none
\* overlapping, each replaced by itself between the two markers.
RECURSIVE PatternSub(_, _, _)
PatternSub(text, pos, words) ==
    IF pos > Len(text) THEN <<>>
    ELSE LET m == AltMatchLen(text, pos, words)
         IN  IF m > 0
             THEN <<MarkOpen>> \o Slice(text, pos, pos + m - 1) \o <<MarkClose>>
                  \o PatternSub(text, pos + m, words)
             ELSE <<text[pos]>> \o PatternSub(text, pos + 1, words)

\* words = [re.escape(w) for w in query.split() if w.strip()]
HighlightWords(query) == SelectSeq(Split(query), LAMBDA w : Strip(w) # <<>>)

\* testo is a text here (line 254 passes str(row["Descrizione"])).
evidenzia_testo_multi(text, query) ==
    IF query = <<>> THEN text
    ELSE IF HighlightWords(query) = <<>> THEN text
         ELSE PatternSub(text, 1, HighlightWords(query))

TestoChars   == {"a", "A", "b"}
KeywordChars == {"a", "A", "b", " "}

InitHl ==
    /\ pc = "highlight"
    /\ testo \in StrUpTo(TestoChars, MaxTestoLen)
    /\ keyword \in StrUpTo(KeywordChars, MaxKeywordLen)
    /\ html = <<>>
    /\ IdleNorm /\ IdleFilter /\ IdlePage /\ IdleLoad

Highlight ==
    /\ pc = "highlight"
    /\ html' = evidenzia_testo_multi(testo, keyword)
    /\ pc' = "done"
    /\ UNCHANGED <<testo, keyword, varsNorm, varsFilter, varsPage, varsLoad>>

NextHl == Highlight

SpecHl == InitHl /\ [][NextHl]_vars

\* The annotated text with its markers removed.
Unmark(h) == SelectSeq(h, LAMBDA e : e \notin {MarkOpen, MarkClose})

\* The marked spans of an annotated text, as <<first, last>> positions of the
\* text without markers.  k: next item, p: text position, o: open position or 0.
RECURSIVE SpansFrom(_, _, _, _)
SpansFrom(h, k, p, o) ==
    IF k > Len(h) THEN {}
    ELSE IF h[k] = MarkOpen THEN SpansFrom(h, k + 1, p, p)
    ELSE IF h[k] = MarkClose THEN {<<o, p - 1>>} \cup SpansFrom(h, k + 1, p, 0)
    ELSE SpansFrom(h, k + 1, p + 1, o)

MarkedSpans(h) == SpansFrom(h, 1, 1, 0)

\* Markers come in pairs, open then close, never nested, never empty.
RECURSIVE WellMarked(_, _)
WellMarked(h, open) ==
    IF h = <<>> THEN ~open
    ELSE IF Head(h) = MarkOpen THEN ~open /\ WellMarked(Tail(h), TRUE)
    ELSE IF Head(h) = MarkClose THEN open /\ WellMarked(Tail(h), FALSE)
    ELSE WellMarked(Tail(h), open)

QueryWords == {Split(keyword)[i] : i \in 1..Len(Split(keyword))}

\* The occurrences of the query words in testo, up to case: <<first, last>>.
Occurrences ==
    {<<i, i + Len(w) - 1>> : <<i, w>> \in
        {iw \in (1..Len(testo)) \X QueryWords :
            /\ iw[1] + Len(iw[2]) - 1 <= Len(testo)
            /\ \A k \in 1..Len(iw[2]) : Lower(testo[iw[1] + k - 1]) = Lower(iw[2][k])}}

\* C8 as stated: every occurrence, up to case, of every query word lies inside
\* a marked span, the text is otherwise unchanged, and an empty query leaves
\* the text as it is.
C8_EveryOccurrenceWrapped ==
    pc = "done" =>
        /\ Unmark(html) = testo
        /\ WellMarked(html, FALSE)
        /\ \A occ \in Occurrences :
              \E sp \in MarkedSpans(html) : sp[1] <= occ[1] /\ occ[2] <= sp[2]
        /\ (QueryWords = {} => html = testo)

\* C8 amended: removing the markers gives back the text; the marked spans
\* are occurrences of query words; every occurrence of a query word is marked
\* or overlaps a marked span; a query without words leaves the text as it is.
C8_HighlightLeftmost ==
    pc = "done" =>
        /\ Unmark(html) = testo
        /\ WellMarked(html, FALSE)
        /\ MarkedSpans(html) \subseteq Occurrences
        /\ \A occ \in Occurrences :
              \E sp \in MarkedSpans(html) : sp[1] <= occ[2] /\ occ[1] <= sp[2]
        /\ (QueryWords = {} => html = testo)

\* Two query words, an occurrence in another case marked, a character left
\* outside the markers.
C8_Witness ==
    /\ pc = "done"
    /\ Cardinality(QueryWords) = 2
    /\ \E sp \in MarkedSpans(html) :
          \E w \in QueryWords : Len(w) = sp[2] - sp[1] + 1 /\ Slice(testo, sp[1], sp[2]) # w
    /\ \E i \in 1..Len(testo) : \A sp \in MarkedSpans(html) : i < sp[1] \/ i > sp[2]

-----------------------------------------------------------------------------
(* The description filters                                                 *)

\* s.str.contains(re.escape(w)): w occurs in s, literally ("" occurs anywhere).
Contains(s, w) ==
    \E i \in 1..(Len(s) - Len(w) + 1) : \A k \in 1..Len(w) : s[i + k - 1] = w[k]

\* The length of a longest common subsequence.
RECURSIVE LCSLen(_, _)
LCSLen(s, t) ==
    IF s = <<>> \/ t = <<>> THEN 0
    ELSE IF Head(s) = Head(t) THEN 1 + LCSLen(Tail(s), Tail(t))
         ELSE Max(LCSLen(Tail(s), t), LCSLen(s, Tail(t)))

\* fuzz.ratio: 100 * (1 - indel distance / (len + len)) = 200 * LCS / (len + len),
\* here its integer part; score >= threshold is the same for an integer threshold.
Ratio(s, t) ==
    IF Len(s) + Len(t) = 0 THEN 100 ELSE (200 * LCSLen(s, t)) \div (Len(s) + Len(t))

\* The windows of the longer text the shorter one is aligned with: the
\* prefixes shorter than it, the substrings of its length, the suffixes no
\* longer than it.
Windows(m, long) ==
    LET n == Len(long)
    IN  {Slice(long, 1, i) : i \in 1..(m - 1)}
        \cup {Slice(long, i + 1, i + m) : i \in 0..(n - m - 1)}
        \cup {Slice(long, i + 1, n) : i \in (n - m)..(n - 1)}

SetMax(S) == IF S = {} THEN 0 ELSE CHOOSE v \in S : \A w \in S : w <= v

PartialRatioImpl(short, long) ==
    SetMax({Ratio(short, w) : w \in Windows(Len(short), long)})

\* fuzz.partial_ratio(s1, s2): the best ratio of the shorter text against a
\* window of the longer; both ways round when the lengths are equal.
partial_ratio(s1, s2) ==
    IF s1 = <<>> /\ s2 = <<>> THEN 100
    ELSE IF Len(s1) <= Len(s2)
         THEN LET r == PartialRatioImpl(s1, s2)
              IN  IF r # 100 /\ Len(s1) = Len(s2)
                  THEN Max(r, PartialRatioImpl(s2, s1)) ELSE r
         ELSE PartialRatioImpl(s2, s1)

NormCol == [Codice |-> "Codice_norm", Descrizione |-> "Descrizione_norm",
            Ubicazione |-> "Ubicazione_norm", Categoria |-> "Categoria_norm"]

\* df[mask] is written SelectSeq(frame, mask): the rows of the frame whose mask
\* is true, in the frame's order.

\* words = [_normalize_text(w) for w in query.split() if w.strip()]
WordsOf(query) ==
    LET kept == SelectSeq(Split(query), LAMBDA w : Strip(w) # <<>>)
    IN  [k \in 1..Len(kept) |-> _normalize_text(kept[k])]

\* The loop with "mask =" for "mask &=": only the last word counts.
AllWordsMaskLastOnly(s, words) ==
    words = <<>> \/ Contains(s, words[Len(words)])

\* mask = True; for w in words: mask &= s.str.contains(re.escape(w))
RECURSIVE AllWordsMask(_, _)
AllWordsMask(s, words) ==
    IF words = <<>> THEN TRUE
    ELSE Contains(s, Head(words)) /\ AllWordsMask(s, Tail(words))

\* s.str.contains("|".join(re.escape(w) for w in words)): the alternation is
\* found somewhere in s.
AnyWordMask(s, words) ==
    \E i \in 1..(Len(s) + 1) : \E k \in 1..Len(words) :
        /\ i + Len(words[k]) - 1 <= Len(s)
        /\ \A j \in 1..Len(words[k]) : s[i + j - 1] = words[k][j]

filter_contains_all_words(frame, column, query, require_all) ==
    LET words == WordsOf(query)
    IN  IF query = <<>> THEN frame
        ELSE IF words = <<>> THEN frame
        ELSE IF require_all
             THEN SelectSeq(frame, LAMBDA i : AllWordsMask(df[i][NormCol[column]], words))
             ELSE SelectSeq(frame, LAMBDA i : AnyWordMask(df[i][NormCol[column]], words))

\* The fuzzy filter with a strict threshold.
fuzzy_search_strict(frame, column, query, threshold) ==
    LET qn == _normalize_text(query)
    IN  IF query = <<>> THEN frame
        ELSE SelectSeq(frame, LAMBDA i :
                 partial_ratio(qn, df[i][NormCol[column]]) > threshold)

\* The rows of a frame, best score first (ties in the frame's order).
RECURSIVE RankedByScore(_, _, _)
RankedByScore(frame, column, qn) ==
    IF frame = <<>> THEN <<>>
    ELSE LET sc(k) == partial_ratio(qn, df[frame[k]][NormCol[column]])
             best  == CHOOSE k \in 1..Len(frame) :
                          /\ \A j \in 1..Len(frame) : sc(j) <= sc(k)
                          /\ \A j \in 1..(k - 1) : sc(j) < sc(k)
         IN  <<frame[best]>> \o
             RankedByScore(SubSeq(frame, 1, best - 1) \o SubSeq(frame, best + 1, Len(frame)),
                           column, qn)

\* The fuzzy filter returning its rows ranked by score.
fuzzy_search_ranked(frame, column, query, threshold) ==
    LET qn == _normalize_text(query)
    IN  IF query = <<>> THEN frame
        ELSE RankedByScore(
                 SelectSeq(frame, LAMBDA i :
                     partial_ratio(qn, df[i][NormCol[column]]) >= threshold),
                 column, qn)

fuzzy_search_balanced(frame, column, query, threshold) ==
    LET qn == _normalize_text(query)
    IN  IF query = <<>> THEN frame
        ELSE SelectSeq(frame, LAMBDA i :
                 partial_ratio(qn, df[i][NormCol[column]]) >= threshold)

-----------------------------------------------------------------------------
(* The filter block of the script (FILTRAGGIO)                             *)

Tutte == <<"T", "u", "t", "t", "e">>

\* Lines 134-135: the *_norm columns.
WithNormColumns(row) ==
    [Codice |-> row.Codice, Descrizione |-> row.Descrizione,
     Ubicazione |-> row.Ubicazione, Categoria |-> row.Categoria,
     Codice_norm |-> _normalize_text(row.Codice),
     Descrizione_norm |-> _normalize_text(row.Descrizione),
     Ubicazione_norm |-> _normalize_text(row.Ubicazione),
     Categoria_norm |-> _normalize_text(row.Categoria)]

AllRows == [i \in 1..Len(df) |-> i]

\* Line 174: the choices of the category selectbox.
categorie_uniche == {Tutte} \cup {df[i].Categoria : i \in 1..Len(df)}

\* Lines 185-189.
FilterCodice ==
    /\ pc = "codice"
    /\ filtro' = IF codice # <<>>
                 THEN SelectSeq(AllRows, LAMBDA i :
                          Contains(df[i].Codice_norm, _normalize_text(codice)))
                 ELSE AllRows
    /\ pc' = "descrizione"
    /\ UNCHANGED <<df, varsQuery, descIn, stage1, varsNorm, varsHl, varsPage, varsLoad>>

\* Lines 191-194.
FilterDescrizioneWords ==
    /\ pc = "descrizione"
    /\ descIn' = filtro
    /\ filtro' = IF descrizione # <<>>
                 THEN filter_contains_all_words(filtro, "Descrizione",
                                                Strip(descrizione), match_all_words)
                 ELSE filtro
    /\ stage1' = filtro'
    /\ pc' = "fuzzy"
    /\ UNCHANGED <<df, varsQuery, varsNorm, varsHl, varsPage, varsLoad>>

\* Lines 195-197.
FilterDescrizioneFuzzy ==
    /\ pc = "fuzzy"
    /\ filtro' = IF descrizione # <<>>
                 THEN fuzzy_search_balanced(filtro, "Descrizione",
                                            Strip(descrizione), soglia_fuzzy)
                 ELSE filtro
    /\ pc' = "ubicazione"
    /\ UNCHANGED <<df, varsQuery, descIn, stage1, varsNorm, varsHl, varsPage, varsLoad>>

\* Lines 199-201.
FilterUbicazione ==
    /\ pc = "ubicazione"
    /\ filtro' = IF ubicazione # <<>>
                 THEN SelectSeq(filtro, LAMBDA i :
                          Contains(df[i].Ubicazione_norm, _normalize_text(ubicazione)))
                 ELSE filtro
    /\ pc' = "categoria"
    /\ UNCHANGED <<df, varsQuery, descIn, stage1, varsNorm, varsHl, varsPage, varsLoad>>

\* Lines 203-205.
FilterCategoria ==
    /\ pc = "categoria"
    /\ filtro' = IF categoria # Tutte
                 THEN SelectSeq(filtro, LAMBDA i :
                          df[i].Categoria_norm = _normalize_text(categoria))
                 ELSE filtro
    /\ pc' = "done"
    /\ UNCHANGED <<df, varsQuery, descIn, stage1, varsNorm, varsHl, varsPage, varsLoad>>

NextFilter ==
    \/ FilterCodice
    \/ FilterDescrizioneWords
    \/ FilterDescrizioneFuzzy
    \/ FilterUbicazione
    \/ FilterCategoria

\* The slider of line 179 runs from 50 to 100; 70 is the default (line 143).
SogliaMin == 50
SogliaDefault == 70
SogliaMax == 100

\* Tables of 1..MaxRows rows (an empty table stops the script at line 121).
Tables(rows) == UNION {[1..k -> rows] : k \in 1..MaxRows}

\* Cells and queries of one code point; descriptions of one code point or of
\* two different ones.
OneChar(chars) == {<<c>> : c \in chars}
CellChars       == {"a", "B"}
FieldQueryChars == {"A", "b"}
DescChars       == {"a", "B"}
DescCells       == OneChar(DescChars) \cup {cd \in DescChars \X DescChars : cd[1] # cd[2]}
DescQueryChars  == {"a", "b", " ", "U+0301"}

\* Tables that differ in all four columns, under every combination of the
\* four filters.
InitOrchestration ==
    /\ \E raw \in Tables([Codice : OneChar(CellChars),
                          Descrizione : OneChar(DescChars),
                          Ubicazione : OneChar(CellChars),
                          Categoria : OneChar(CellChars)]) :
          df = [i \in 1..Len(raw) |-> WithNormColumns(raw[i])]
    /\ codice \in {<<>>, <<"A">>}
    /\ ubicazione \in {<<>>} \cup OneChar(FieldQueryChars)
    /\ descrizione \in {<<>>, <<"b">>}
    /\ categoria \in categorie_uniche
    /\ soglia_fuzzy = SogliaDefault
    /\ match_all_words = TRUE

\* Tables that differ in the description, under every description query,
\* both word modes and three thresholds.
InitDescription ==
    /\ \E descs \in Tables(DescCells) :
          df = [i \in 1..Len(descs) |->
                   WithNormColumns([Codice |-> <<"a">>, Descrizione |-> descs[i],
                                    Ubicazione |-> <<"a">>, Categoria |-> <<"a">>])]
    /\ codice = <<>> /\ ubicazione = <<>> /\ categoria = Tutte
    /\ descrizione \in StrUpTo(DescQueryChars, MaxQueryLen)
    /\ soglia_fuzzy \in {SogliaMin, SogliaDefault, SogliaMax}
    /\ match_all_words \in BOOLEAN

InitFilter ==
    /\ pc = "codice"
    /\ InitOrchestration \/ InitDescription
    /\ filtro = <<>> /\ descIn = <<>> /\ stage1 = <<>>
    /\ IdleNorm /\ IdleHl /\ IdlePage /\ IdleLoad

SpecFilter == InitFilter /\ [][NextFilter]_vars

Rows(frame) == {frame[k] : k \in 1..Len(frame)}

\* The criteria, row by row.
PassCodice(i) ==
    codice = <<>> \/ Contains(df[i].Codice_norm, _normalize_text(codice))
PassUbicazione(i) ==
    ubicazione = <<>> \/ Contains(df[i].Ubicazione_norm, _normalize_text(ubicazione))
PassCategoria(i) ==
    categoria = Tutte \/ df[i].Categoria_norm = _normalize_text(categoria)

\* The words the prefilter tests, and the row's test in the two modes.
QueryTokens ==
    LET words == WordsOf(Strip(descrizione)) IN {words[k] : k \in 1..Len(words)}
HasAllTokens(T, i) == \A t \in T : Contains(df[i].Descrizione_norm, t)
HasAnyToken(T, i)  == \E t \in T : Contains(df[i].Descrizione_norm, t)
PassWords(T, i) ==
    T = {} \/ IF match_all_words THEN HasAllTokens(T, i) ELSE HasAnyToken(T, i)
Score(qn, i) == partial_ratio(qn, df[i].Descrizione_norm)
PassDescrizione(T, qn, i) ==
    Strip(descrizione) = <<>> \/ (PassWords(T, i) /\ Score(qn, i) >= soglia_fuzzy)

Increasing(frame) == \A k \in 1..(Len(frame) - 1) : frame[k] < frame[k + 1]

\* C1 as stated: when more rows survive the word prefilter than
\* candidate_row_limit allows, the description matcher returns the prefilter's
\* output as it is, whatever the limit (stated for the queries whose words
\* are all non-empty).
C1_FuzzySkippedAboveLimit ==
    (pc = "ubicazione" /\ descrizione # <<>> /\ <<>> \notin QueryTokens) =>
        \A candidate_row_limit \in 1..MaxRows :
            Len(stage1) > candidate_row_limit => filtro = stage1

\* C2: the result holds exactly the rows that pass every active criterion, in
\* a conjunction; with nothing active it is the whole table.
C2_ResultIsConjunction ==
    pc = "done" =>
        /\ LET T  == QueryTokens
               qn == _normalize_text(Strip(descrizione))
           IN  \A i \in 1..Len(df) :
                  i \in Rows(filtro) <=>
                      /\ PassCodice(i) /\ PassUbicazione(i) /\ PassCategoria(i)
                      /\ PassDescrizione(T, qn, i)
        /\ (codice = <<>> /\ Strip(descrizione) = <<>> /\ ubicazione = <<>> /\ categoria = Tutte)
              => filtro = AllRows

\* All four criteria active, one row of two kept.
C2_Witness ==
    /\ pc = "done"
    /\ codice # <<>> /\ descrizione # <<>> /\ ubicazione # <<>> /\ categoria # Tutte
    /\ Len(df) = 2 /\ Len(filtro) = 1

\* C3: the result is a subsequence of the table: its rows are in the table's
\* order, none twice, whatever their scores.
C3_OrderPreserved ==
    pc \in {"fuzzy", "ubicazione", "categoria", "done"} =>
        Increasing(filtro) /\ Rows(filtro) \subseteq 1..Len(df)

\* Two rows kept by the description filters, the second with the better score.
C3_Witness ==
    /\ pc = "done"
    /\ Strip(descrizione) # <<>>
    /\ Len(filtro) = 2
    /\ Score(_normalize_text(Strip(descrizione)), filtro[1])
          < Score(_normalize_text(Strip(descrizione)), filtro[2])

\* C4: with words to test, the prefilter keeps a row iff its normalised
\* description holds every word (all-words mode) or some word (any-word mode);
\* the all-words rows are among the any-word rows; only the set of words counts.
C4_WordPrefilter ==
    pc = "fuzzy" =>
      LET T == QueryTokens
      IN  T # {} =>
        /\ stage1 = SelectSeq(descIn, LAMBDA i :
                        IF match_all_words THEN HasAllTokens(T, i) ELSE HasAnyToken(T, i))
        /\ Rows(filter_contains_all_words(descIn, "Descrizione", Strip(descrizione), TRUE))
              \subseteq
           Rows(filter_contains_all_words(descIn, "Descrizione", Strip(descrizione), FALSE))

\* Two words, all-words mode: one row of two holds both, the other only one.
C4_Witness ==
    /\ pc = "fuzzy"
    /\ match_all_words
    /\ Cardinality(QueryTokens) = 2 /\ <<>> \notin QueryTokens
    /\ Len(descIn) = 2 /\ Len(stage1) = 1
    /\ \A i \in Rows(descIn) : HasAnyToken(QueryTokens, i)

\* C9 as stated: the rows handed to the description matcher have passed the
\* code, location and category criteria.
C9_StructuredBeforeDescription ==
    (pc \in {"fuzzy", "ubicazione", "categoria", "done"} /\ descrizione # <<>>) =>
        \A i \in Rows(descIn) : PassCodice(i) /\ PassUbicazione(i) /\ PassCategoria(i)

\* C10 as stated: the prefilter tests no empty word; without words it keeps
\* every row; in any-word mode each row it keeps holds a non-empty word.
C10_NoEmptyToken ==
    (pc = "fuzzy" /\ Strip(descrizione) # <<>>) =>
        /\ <<>> \notin QueryTokens
        /\ (QueryTokens \ {<<>>} = {}) => stage1 = descIn
        /\ (~match_all_words /\ QueryTokens \ {<<>>} # {}) =>
              \A i \in Rows(stage1) : HasAnyToken(QueryTokens \ {<<>>}, i)

-----------------------------------------------------------------------------
(* Results and pagination (RISULTATI + PAGINAZIONE)                        *)

\* Line 181: st.number_input("Righe per pagina", 10, 500, ..., step=10);
\* line 145: the default.
PageSizeMin == 10
PageSizeStep == 10
PageSizeDefault == 50
PageSizes == {PageSizeMin, PageSizeMin + PageSizeStep, PageSizeDefault}

\* Line 212: max(1, (total + page_size - 1) // page_size).
MaxPages(t, size) == Max(1, (t + size - 1) \div size)

\* The page index bounded from below only.
ClampPageLowOnly(idx, maxp) == Max(1, idx)

\* Line 213: max(1, min(page_idx, max_pages)).
ClampPage(idx, maxp) == Max(1, Min(idx, maxp))

\* Lines 224-227 after line 213: the page index the slice is taken at.
PageAfterButtons(idx, maxp, prev, next_) ==
    LET clamped == ClampPage(idx, maxp)
        back    == IF prev /\ clamped > 1 THEN clamped - 1 ELSE clamped
    IN  IF next_ /\ back < maxp THEN back + 1 ELSE back

\* Lines 229-231: len(filtro.iloc[start:end]).
SliceLen(t, size, idx) ==
    LET start == (idx - 1) * size
        end   == start + size
    IN  Max(0, Min(end, t) - Min(start, t))

\* One run of the script from line 208 on: the session holds idx and size,
\* the filters gave t rows, prev and next_ tell which button was pressed.
RunResults(t, size, idx, prev, next_) ==
    /\ total' = t
    /\ page_size' = size
    /\ max_pages' = MaxPages(t, size)
    /\ page_idx' = PageAfterButtons(idx, MaxPages(t, size), prev, next_)
    /\ page_len' = SliceLen(t, size, PageAfterButtons(idx, MaxPages(t, size), prev, next_))
    /\ UNCHANGED <<pc, nrows, varsNorm, varsHl, varsFilter, varsLoad>>

\* The first run: the defaults of lines 138-149, no filter set.
InitPage ==
    /\ pc = "page"
    /\ nrows \in 1..MaxTotal
    /\ total = nrows
    /\ page_size = PageSizeDefault
    /\ max_pages = MaxPages(nrows, PageSizeDefault)
    /\ page_idx = 1
    /\ page_len = SliceLen(nrows, PageSizeDefault, 1)
    /\ IdleNorm /\ IdleHl /\ IdleFilter /\ IdleLoad

\* The user changes a filter: the run finds t rows.
ChangeFilters == \E t \in 0..nrows : RunResults(t, page_size, page_idx, FALSE, FALSE)

\* "Righe per pagina".
SetPageSize == \E size \in PageSizes : RunResults(total, size, page_idx, FALSE, FALSE)

\* "Pagina prec."
PressPrev == RunResults(total, page_size, page_idx, TRUE, FALSE)

\* "Pagina succ."
PressNext == RunResults(total, page_size, page_idx, FALSE, TRUE)

\* "Vai a pagina": a number within the bounds the widget was drawn with.
GoToPage == \E p \in 1..max_pages : RunResults(total, page_size, p, FALSE, FALSE)

\* "Reset filtri": reset_filtri (lines 151-158), then the run on the whole table.
ResetFiltri == RunResults(nrows, page_size, 1, FALSE, FALSE)

NextPage ==
    \/ ChangeFilters
    \/ SetPageSize
    \/ PressPrev
    \/ PressNext
    \/ GoToPage
    \/ ResetFiltri

SpecPage == InitPage /\ [][NextPage]_vars

\* The least number of pages of page_size rows that hold total rows.
CeilPages == CHOOSE k \in 0..MaxTotal + 1 : k * page_size >= total /\ (k - 1) * page_size < total

\* C6: after any user action the page index of the slice is within
\* 1..max(1, ceil(total / page_size)); with a row to show, the page shown
\* holds between one and page_size rows.
C6_PageIndexInRange ==
    pc = "page" =>
        /\ 1 <= page_idx /\ page_idx <= Max(1, CeilPages)
        /\ total > 0 => (1 <= page_len /\ page_len <= page_size)

\* The last of several pages, not full, with the filters narrowing the table.
C6_Witness ==
    /\ pc = "page"
    /\ total < nrows
    /\ page_idx = max_pages /\ max_pages >= 3
    /\ page_len < page_size

-----------------------------------------------------------------------------
(* Loading and verifying the table (CARICA DATI, Verifica colonne minime)  *)

\* str.title(): a letter after a letter is lowercased, any other letter is
\* uppercased.
Title(s) ==
    [k \in 1..Len(s) |->
        IF ~IsLetter(s[k]) THEN s[k]
        ELSE IF k > 1 /\ IsLetter(s[k - 1]) THEN Lower(s[k]) ELSE Upper(s[k])]

\* Line 124: df.columns.str.strip().str.title().
CleanColumns(columns) == [k \in 1..Len(columns) |-> Title(Strip(columns[k]))]

Codice      == <<"C", "o", "d", "i", "c", "e">>
Descrizione == <<"D", "e", "s", "c", "r", "i", "z", "i", "o", "n", "e">>
Ubicazione  == <<"U", "b", "i", "c", "a", "z", "i", "o", "n", "e">>
Categoria   == <<"C", "a", "t", "e", "g", "o", "r", "i", "a">>

\* Line 127.
required_cols == {Codice, Descrizione, Ubicazione, Categoria}

\* df.empty with the check of the rows left out.
EmptyNoColumns(t) == Len(t.columns) = 0

\* df.empty: no column or no row.
Empty(t) == Len(t.columns) = 0 \/ t.rows = 0

\* Line 128: required_cols - set(df.columns).
Missing(columns) == required_cols \ {columns[k] : k \in 1..Len(columns)}

\* A header as a spreadsheet may spell it: padded, its case swapped.
Messy(h) ==
    <<" ">> \o [k \in 1..Len(h) |-> IF h[k] = Lower(h[k]) THEN Upper(h[k]) ELSE Lower(h[k])]
    \o <<" ">>

\* The headers of a sheet: each required column as it is, messy, or absent.
HeaderRows ==
    {Concat(<<c1, c2, c3, c4>>) :
        c1 \in {<<>>, <<Codice>>, <<Messy(Codice)>>},
        c2 \in {<<>>, <<Descrizione>>, <<Messy(Descrizione)>>},
        c3 \in {<<>>, <<Ubicazione>>, <<Messy(Ubicazione)>>},
        c4 \in {<<>>, <<Categoria>>, <<Messy(Categoria)>>}}

\* What a file can be: absent, unreadable, or a sheet.
Files ==
    {NoFile, [kind |-> "unreadable", columns |-> <<>>, rows |-> 0]}
    \cup [kind : {"sheet"}, columns : HeaderRows, rows : 0..MaxLoadRows]

InitLoad ==
    /\ pc = "load"
    /\ excel \in Files
    /\ up \in Files
    /\ table = EmptyFrame
    /\ error = ""
    /\ IdleNorm /\ IdleHl /\ IdleFilter /\ IdlePage

\* Lines 107, 29-38: load_data.
LoadData ==
    /\ pc = "load"
    /\ table' = IF excel.kind = "sheet"
                THEN [columns |-> excel.columns, rows |-> excel.rows] ELSE EmptyFrame
    /\ error' = IF excel.kind = "unreadable" THEN "Errore caricamento dati" ELSE error
    /\ pc' = "fallback"
    /\ UNCHANGED <<excel, up, varsNorm, varsHl, varsFilter, varsPage>>

\* Lines 110-117: the uploader, when the table is empty.
Fallback ==
    /\ pc = "fallback"
    /\ IF Empty(table) /\ up.kind = "unreadable"
       THEN /\ error' = "Errore lettura file caricato"
            /\ pc' = "stopped"
            /\ UNCHANGED table
       ELSE /\ table' = IF Empty(table) /\ up.kind = "sheet"
                        THEN [columns |-> up.columns, rows |-> up.rows] ELSE table
            /\ pc' = "check_empty"
            /\ UNCHANGED error
    /\ UNCHANGED <<excel, up, varsNorm, varsHl, varsFilter, varsPage>>

\* Lines 119-121.
CheckEmpty ==
    /\ pc = "check_empty"
    /\ IF Empty(table)
       THEN error' = "Nessun dato disponibile." /\ pc' = "stopped"
       ELSE pc' = "columns" /\ UNCHANGED error
    /\ UNCHANGED <<excel, up, table, varsNorm, varsHl, varsFilter, varsPage>>

\* Lines 124-131; "filtering" stands for the rest of the script.
VerifyColumns ==
    /\ pc = "columns"
    /\ table' = [table EXCEPT !.columns = CleanColumns(table.columns)]
    /\ IF Missing(CleanColumns(table.columns)) # {}
       THEN error' = "Mancano le colonne richieste" /\ pc' = "stopped"
       ELSE pc' = "filtering" /\ UNCHANGED error
    /\ UNCHANGED <<excel, up, varsNorm, varsHl, varsFilter, varsPage>>

NextLoad == LoadData \/ Fallback \/ CheckEmpty \/ VerifyColumns

SpecLoad == InitLoad /\ [][NextLoad]_vars

\* The file the table comes from: the one beside the program if it gives a
\* table that is not empty, else the uploaded one.
Source == IF excel.kind = "sheet" /\ excel.rows > 0 /\ Len(excel.columns) > 0 THEN excel ELSE up

\* C7: filtering is reached only with a table of at least one row that has the
\* four required columns once its headers are trimmed and title-cased, and
\* never after a read failure of the uploaded file; a run that stops shows an
\* error message.
C7_FilterOnlyOnValidTable ==
    /\ pc = "filtering" =>
          /\ Source.kind = "sheet"
          /\ Source.rows > 0
          /\ \A r \in required_cols :
                \E k \in 1..Len(Source.columns) : Title(Strip(Source.columns[k])) = r
    /\ pc = "stopped" => error # ""

\* The file beside the program cannot be read, the uploaded sheet has rows
\* but lacks a required column: the run stops on the columns.
C7_Witness ==
    /\ pc = "stopped"
    /\ excel.kind = "unreadable"
    /\ up.kind = "sheet" /\ up.rows > 0
    /\ error = "Mancano le colonne richieste"

=============================================================================
